---- MODULE Spec2Model ----
(***************************************************************************)
(* Subspace Outlier Detection (pyod/models/sod.py).                        *)
(*                                                                         *)
(* The module models                                                       *)
(*   - the kernel _snn_imp (shared-nearest-neighbour reference sets) with  *)
(*     its parallel outer loop,                                            *)
(*   - the scoring loop of SOD._sod,                                       *)
(*   - the detector object: __init__, fit and decision_function.           *)
(*                                                                         *)
(* Numbers.  Features are integers and every real quantity of _sod is an   *)
(* exact rational <<numerator, denominator>> with a positive denominator   *)
(* (the model has no rounding).  A score sqrt(q) is stored as its radicand *)
(* q in lowest terms: sqrt is injective on the non-negative rationals, so  *)
(* two scores are equal exactly when their radicands are.                  *)
(* A uint32 is the pair <<high 16 bits, low 16 bits>>.                     *)
(***************************************************************************)
EXTENDS Integers, Sequences, FiniteSets, TLC

(***************************************************************************)
(* Bounds and input families                                               *)
(***************************************************************************)
\* number of samples of every data set (X.shape[0])
NSamples == 5
\* number of worker threads that run the iterations of the parallel loop
NumThreads == 2

Points == 0 .. (NSamples - 1)

\* feature vectors the data sets are built from (one- and two-dimensional)
Rows1D == { <<0>>, <<2>>, <<3>> }
Rows2D == { <<0, 0>>, <<2, 0>>, <<2, 3>> }

\* the data sets: NSamples rows of one dimension d
DataSets == [Points -> Rows1D] \cup [Points -> Rows2D]

\* Python's None
None == << >>

(***************************************************************************)
(* Exact rational arithmetic                                               *)
(***************************************************************************)
Abs(a) == IF a < 0 THEN -a ELSE a

RECURSIVE Gcd(_, _)
Gcd(a, b) == IF b = 0 THEN a ELSE Gcd(b, a % b)

Rat(n, d) ==
    LET g == Gcd(Abs(n), Abs(d))
        s == IF d < 0 THEN -1 ELSE 1
    IN  << (s * n) \div g, (s * d) \div g >>

RAdd(p, q) == Rat(p[1] * q[2] + q[1] * p[2], p[2] * q[2])
RSub(p, q) == Rat(p[1] * q[2] - q[1] * p[2], p[2] * q[2])
RMul(p, q) == Rat(p[1] * q[1], p[2] * q[2])
RDiv(p, q) == Rat(p[1] * q[2], p[2] * q[1])
RLess(p, q) == p[1] * q[2] < q[1] * p[2]
RInt(a) == << a, 1 >>
RZero == << 0, 1 >>

RECURSIVE RSum(_)
RSum(s) == IF s = << >> THEN RZero ELSE RAdd(s[1], RSum(Tail(s)))

(***************************************************************************)
(* uint32 values of the scratch array temp                                 *)
(***************************************************************************)
U32(c) == << c \div 65536, c % 65536 >>
\* np.iinfo(np.uint32).max = 2^32 - 1
UINT32_MAX == << 65535, 65535 >>


(***************************************************************************)
(* State                                                                   *)
(***************************************************************************)
VARIABLES
    \* ---- the kernel _snn_imp(ind, ref_set_) ----
    ind,              \* neighbour index matrix: ind[i] is row i, read as a set
    ref_set_,         \* the kernel's parameter ref_set_
    temp,             \* scratch arrays, one per allocation slot
    _count,           \* the output matrix
    iter,             \* per iteration of the outer loop: its position
    kernel,           \* "off", "run" or "returned"
    \* ---- the scoring loop SOD._sod(X) ----
    X,                \* the feature matrix
    self,             \* the detector object
    ref_inds,         \* reference-set index matrix
    anomaly_scores,   \* the score vector being filled
    loc,              \* the locals of the loop body after its last run
    sod,              \* position in _sod: pc "off", "snn", "loop" or "returned", index i
    \* ---- the detector's life ----
    status,           \* "new", "constructed" or "error" (the constructor raised)
    args,             \* the arguments __init__ was called with
    fitted,           \* the last fit: whether there was one, and its X
    called,           \* the last decision_function: its X and what it returned
    \* ---- scoring the same data under another numbering of the samples ----
    perm,             \* the renumbering: sample i becomes sample perm[i]
    twin              \* the renumbered inputs and what _sod makes of them

kernelVars == << ind, ref_set_, temp, _count, iter, kernel >>
sodVars == << X, self, ref_inds, anomaly_scores, loc, sod >>
lifeVars == << status, args, fitted, called >>
twinVars == << perm, twin >>

vars == << kernelVars, sodVars, lifeVars, twinVars >>

\* an array held by value: its entries are computed when it is built
Arr(f) == IF f = f THEN f ELSE f

(***************************************************************************)
(* k nearest neighbours (SOD._snn, lines 169-172)                          *)
(***************************************************************************)
RECURSIVE SumSq(_, _)
SumSq(a, b) ==
    IF a = << >> THEN 0
    ELSE (a[1] - b[1]) * (a[1] - b[1]) + SumSq(Tail(a), Tail(b))

\* j is nearer to i than m is; equal distances are ordered by index
Nearer(x, i, j, m) ==
    LET dj == SumSq(x[i], x[j])
        dm == SumSq(x[i], x[m])
    IN  dj < dm \/ (dj = dm /\ j < m)

\* NearestNeighbors(n_neighbors).fit(X).kneighbors(): for every sample the
\* n_neighbors nearest other samples
kneighbors(x, n_neighbors) ==
    Arr([i \in Points |->
            {j \in Points \ {i} :
                Cardinality({m \in Points \ {i, j} : Nearer(x, i, m, j)})
                    < n_neighbors}])

(***************************************************************************)
(* _snn_imp, one iteration of the outer loop                               *)
(***************************************************************************)
\* np.empty: memory whose content is not defined
Uninit == << >>

\* the slot holding the scratch array of iteration i: the array is allocated
\* inside the loop body, one per iteration (line 33)
SharedTempSlot(i) == 0
TempSlot(i) == i

\* order of two uint32 values
LTOrEqual(a, b) == a[1] < b[1] \/ (a[1] = b[1] /\ a[2] <= b[2])
LT(a, b) == a[1] < b[1] \/ (a[1] = b[1] /\ a[2] < b[2])

\* insertion of index j into the index sequence s, sorted by t
RECURSIVE Insert(_, _, _)
Insert(s, j, t) ==
    IF s = << >> THEN << j >>
    ELSE IF LT(t[j], t[s[Len(s)]])
         THEN Append(Insert(SubSeq(s, 1, Len(s) - 1), j, t), s[Len(s)])
         ELSE Append(s, j)

RECURSIVE SortUpTo(_, _)
SortUpTo(t, j) == IF j < 0 THEN << >> ELSE Insert(SortUpTo(t, j - 1), j, t)

\* np.argsort(temp): the indices 0..n-1 in ascending order of temp
argsort(t) == SortUpTo(t, NSamples - 1)

\* [::-1][1:ref_set_ + 1] of a sorted index sequence
SliceFromZero(sorted, r) == [m \in 1 .. r |-> sorted[Len(sorted) + 1 - m]]
NotReversed(sorted, r) == [m \in 1 .. r |-> sorted[m + 1]]
ReversedSlice(sorted, r) == [m \in 1 .. r |-> sorted[Len(sorted) - m]]

\* len(set(ind[j]).intersection(test_element_set))
Shared(test_element_set, row) == U32(Cardinality(row \cap test_element_set))

\* the scratch array of iteration i once lines 35-37 have run
TempMarkingFirst(nb, i) ==
    Arr([j \in Points |-> IF j = 0 THEN UINT32_MAX ELSE Shared(nb[i], nb[j])])
TempOf(nb, i) ==
    Arr([j \in Points |-> IF j = i THEN UINT32_MAX ELSE Shared(nb[i], nb[j])])

\* the whole kernel, iterations taken one after another in index order
_snn_imp(nb, r) ==
    Arr([i \in Points |-> ReversedSlice(argsort(TempOf(nb, i)), r)])


(***************************************************************************)
(* _snn_imp with its parallel outer loop (lines 30-40)                     *)
(*                                                                         *)
(* The outer prange hands iterations to threads; at most NumThreads        *)
(* iterations are in progress at a time and a thread takes any iteration   *)
(* not yet started.  The nested prange runs serially inside its iteration. *)
(***************************************************************************)
\* pairs (n_neighbors, ref_set) the constructor accepts and kneighbors can serve
KernelConfigs ==
    {c \in (1 .. NSamples) \X (1 .. NSamples) :
        1 < c[2] /\ c[2] < c[1] /\ c[1] < NSamples}

\* one-dimensional data sets listed in ascending order
SortedData == {x \in [Points -> Rows1D] :
                 \A i \in Points : i = 0 \/ x[i - 1][1] <= x[i][1]}

InProgress == {i \in Points : iter[i].pc \in {"inner", "mark", "sort"}}

Idle == [pc |-> "todo", j |-> 0, test_element_set |-> {}]

\* lines 30-31: n = ind.shape[0]; _count = np.zeros((n, ref_set_))
KernelEntry(nb, r) ==
    /\ ind' = nb
    /\ ref_set_' = r
    /\ _count' = [i \in Points |-> [m \in 1 .. r |-> 0]]
    /\ temp' = [s \in Points |-> [j \in Points |-> Uninit]]
    /\ iter' = [i \in Points |-> Idle]
    /\ kernel' = "run"

KernelOff ==
    /\ kernel = "off"
    /\ ind = None
    /\ ref_set_ = None
    /\ temp = None
    /\ _count = None
    /\ iter = None

SodOff ==
    /\ X = None
    /\ ref_inds = None
    /\ anomaly_scores = None
    /\ loc = None
    /\ sod = [pc |-> "off", i |-> 0]

\* attributes of a Python object: a function from the names set so far
NoAttrs == << >>
SetAttr(obj, name, value) ==
    [a \in DOMAIN obj \cup {name} |-> IF a = name THEN value ELSE obj[a]]

NoCalls ==
    /\ fitted = [done |-> FALSE, X |-> << >>]
    /\ called = [done |-> FALSE, X |-> << >>, ret |-> << >>]

NoTwin ==
    /\ perm = << >>
    /\ twin = [done |-> FALSE]

InitPar ==
    /\ KernelOff
    /\ SodOff
    /\ self = NoAttrs
    /\ status = "new"
    /\ args = << >>
    /\ NoCalls
    /\ NoTwin

CallKernel ==
    /\ kernel = "off"
    /\ \E x \in SortedData, c \in KernelConfigs :
          KernelEntry(kneighbors(x, c[1]), c[2])
    /\ UNCHANGED << sodVars, lifeVars, twinVars >>

\* lines 32-34: a thread starts iteration i
StartIteration(i) ==
    /\ kernel = "run"
    /\ iter[i].pc = "todo"
    /\ Cardinality(InProgress) < NumThreads
    /\ temp' = [temp EXCEPT ![TempSlot(i)] = [j \in Points |-> Uninit]]
    /\ iter' = [iter EXCEPT ![i] =
                   [pc |-> "inner", j |-> 0, test_element_set |-> ind[i]]]
    /\ UNCHANGED << ind, ref_set_, _count, kernel >>
    /\ UNCHANGED << sodVars, lifeVars, twinVars >>

\* lines 35-36: one iteration of the inner loop
Inner(i) ==
    /\ kernel = "run"
    /\ iter[i].pc = "inner"
    /\ LET j == iter[i].j IN
         /\ temp' = [temp EXCEPT ![TempSlot(i)][j] =
                        Shared(iter[i].test_element_set, ind[j])]
         /\ iter' = [iter EXCEPT ![i].j = j + 1,
                                 ![i].pc = IF j + 1 = NSamples THEN "mark"
                                           ELSE "inner"]
    /\ UNCHANGED << ind, ref_set_, _count, kernel >>
    /\ UNCHANGED << sodVars, lifeVars, twinVars >>

\* line 37: temp[i] = np.iinfo(np.uint32).max
MarkSelf(i) ==
    /\ kernel = "run"
    /\ iter[i].pc = "mark"
    /\ temp' = [temp EXCEPT ![TempSlot(i)][i] = UINT32_MAX]
    /\ iter' = [iter EXCEPT ![i].pc = "sort"]
    /\ UNCHANGED << ind, ref_set_, _count, kernel >>
    /\ UNCHANGED << sodVars, lifeVars, twinVars >>

\* what a read of the scratch array returns: an entry never written holds
\* any value
ReadTemp(t, garbage) == [j \in Points |-> IF t[j] = Uninit THEN garbage ELSE t[j]]

\* line 38: _count[i] = np.argsort(temp)[::-1][1:ref_set_ + 1]
WriteRow(i) ==
    /\ kernel = "run"
    /\ iter[i].pc = "sort"
    /\ \E garbage \in {U32(0), UINT32_MAX} :
          _count' = [_count EXCEPT ![i] =
              ReversedSlice(argsort(ReadTemp(temp[TempSlot(i)], garbage)),
                            ref_set_)]
    /\ iter' = [iter EXCEPT ![i].pc = "done"]
    /\ UNCHANGED << ind, ref_set_, temp, kernel >>
    /\ UNCHANGED << sodVars, lifeVars, twinVars >>

\* line 40: return _count, once the parallel loop has ended
ReturnCount ==
    /\ kernel = "run"
    /\ \A i \in Points : iter[i].pc = "done"
    /\ kernel' = "returned"
    /\ UNCHANGED << ind, ref_set_, temp, _count, iter >>
    /\ UNCHANGED << sodVars, lifeVars, twinVars >>

NextPar ==
    \/ CallKernel
    \/ \E i \in Points : StartIteration(i)
    \/ \E i \in Points : Inner(i)
    \/ \E i \in Points : MarkSelf(i)
    \/ \E i \in Points : WriteRow(i)
    \/ ReturnCount

SpecPar == InitPar /\ [][NextPar]_vars


(***************************************************************************)
(* SOD._sod: the body of the scoring loop (lines 187-198)                  *)
(***************************************************************************)
\* var_actual[j] < var_expect (line 194)
NotAbove(v, var_expect) == ~ RLess(var_expect, v)
Below(v, var_expect) == RLess(v, var_expect)

\* anomaly_scores = np.zeros(shape=(X.shape[0],)) (line 185)
AllOnes == [i \in Points |-> RInt(1)]
InitialScores == [i \in Points |-> RZero]

\* a vector with its entries evaluated once
Vec(f) == f \o << >>

\* the locals of one run of the loop body for sample i, and the score it
\* leaves in anomaly_scores[i] given the previous content old
LoopBody(x, refs, alpha, r, i, old) ==
    LET obs == x[i]
        d == Len(obs)
        ref == Vec([m \in 1 .. Len(refs[i]) |-> x[refs[i][m]]])
        rows == Len(ref)
        \* np.mean(ref, axis=0)
        means == Vec([j \in 1 .. d |->
                    RDiv(RSum([m \in 1 .. rows |-> RInt(ref[m][j])]), RInt(rows))])
        sq(m, j) == LET e == RSub(RInt(ref[m][j]), means[j]) IN RMul(e, e)
        \* np.sum(np.sum(np.square(ref - means))) / self.ref_set_
        var_total ==
            RDiv(RSum([j \in 1 .. d |-> RSum([m \in 1 .. rows |-> sq(m, j)])]),
                 RInt(r))
        \* self.alpha_ * var_total / X.shape[1]
        var_expect == RDiv(RMul(alpha, var_total), RInt(d))
        \* np.var(ref, axis=0)
        var_actual == Vec([j \in 1 .. d |->
                         RDiv(RSum([m \in 1 .. rows |-> sq(m, j)]), RInt(rows))])
        var_inds == Vec([j \in 1 .. d |->
                       IF Below(var_actual[j], var_expect) THEN 1 ELSE 0])
        rel_dim == Cardinality({j \in 1 .. d : var_inds[j] = 1})
        dev(j) == LET e == RSub(RInt(obs[j]), means[j]) IN RMul(e, e)
        \* np.dot(var_inds, np.square(obs - means)) / rel_dim, under the root
        radicand == RDiv(RSum([j \in 1 .. d |-> RMul(RInt(var_inds[j]), dev(j))]),
                         RInt(rel_dim))
    IN  [i |-> i, obs |-> obs, ref |-> ref, means |-> means,
         var_total |-> var_total, var_expect |-> var_expect,
         var_actual |-> var_actual, var_inds |-> var_inds, rel_dim |-> rel_dim,
         score |-> IF rel_dim # 0 THEN radicand ELSE old]

\* SOD._snn(X) (lines 169-173)
_snn(x, me) == _snn_imp(kneighbors(x, me.n_neighbors_), me.ref_set_)

\* the loop of lines 186-198 from index i on
RECURSIVE SodFrom(_, _, _, _, _)
SodFrom(x, refs, me, i, scores) ==
    IF i = NSamples THEN scores
    ELSE SodFrom(x, refs, me, i + 1,
                 [scores EXCEPT ![i] =
                     LoopBody(x, refs, me.alpha_, me.ref_set_, i, scores[i]).score])

\* SOD._sod(X) as a whole
_sod(x, me) == SodFrom(x, _snn(x, me), me, 0, InitialScores)

(***************************************************************************)
(* SOD._sod step by step, on every data set and accepted configuration     *)
(***************************************************************************)
\* values of alpha: a half and the default 0.8
Alphas == { << 1, 2 >>, << 4, 5 >> }

(***************************************************************************)
(* SOD.__init__ (lines 90-113)                                             *)
(***************************************************************************)
\* argument values carry their Python type
IntArg(v) == [type |-> "int", val |-> v]
FloatArg(q) == [type |-> "float", val |-> q]

\* check_parameter(param, low=low, high=high) of utils.utility: accepts a
\* value strictly between the bounds and raises ValueError otherwise
check_parameter(param, low, high) == RLess(low, param) /\ RLess(param, high)

\* check_parameter(param, low=low), no upper bound
check_parameter_low(param, low) == RLess(low, param)

\* BaseDetector.__init__ accepts a contamination in (0, 0.5)
BaseContaminationOk(contamination) ==
    check_parameter(contamination.val, RZero, << 1, 2 >>)

\* lines 93-97
NeighborsOk(n_neighbors) ==
    /\ n_neighbors.type = "int"
    /\ check_parameter_low(RInt(n_neighbors.val), RInt(1))

\* lines 99-103
RefSetOkIncludingHigh(ref_set, n_neighbors) ==
    /\ ref_set.type = "int"
    /\ check_parameter(RInt(ref_set.val), RInt(1), RInt(n_neighbors.val + 1))
RefSetOk(ref_set, n_neighbors) ==
    /\ ref_set.type = "int"
    /\ check_parameter(RInt(ref_set.val), RInt(1), RInt(n_neighbors.val))

\* lines 105-108
AlphaOk(alpha) ==
    /\ alpha.type = "float"
    /\ check_parameter(alpha.val, RZero, RInt(1))

\* the object after super().__init__(contamination) (line 92)
AfterBaseInit(contamination) == SetAttr(NoAttrs, "contamination", contamination.val)

\* the object after lines 110-113
Detector(n_neighbors, ref_set, alpha, contamination) ==
    SetAttr(SetAttr(SetAttr(SetAttr(AfterBaseInit(contamination),
        "n_neighbors_", n_neighbors.val),
        "ref_set_", ref_set.val),
        "alpha_", alpha.val),
        "decision_scores_", None)

SodStart(data, alphas) ==
    /\ KernelOff
    /\ X \in data
    /\ \E c \in KernelConfigs, a \in alphas :
          /\ args = [contamination |-> FloatArg(<< 1, 10 >>),
                     n_neighbors |-> IntArg(c[1]), ref_set |-> IntArg(c[2]),
                     alpha |-> FloatArg(a)]
          /\ self = Detector(args.n_neighbors, args.ref_set, args.alpha,
                             args.contamination)
    /\ status = "constructed"
    /\ NoCalls
    /\ ref_inds = None
    /\ anomaly_scores = None
    /\ loc = None
    /\ sod = [pc |-> "off", i |-> 0]

InitSod == SodStart(DataSets, Alphas) /\ NoTwin

\* line 184 calls _snn; lines 169-172: the neighbour index matrix
SodKnn ==
    /\ sod.pc = "off"
    /\ ind' = kneighbors(X, self.n_neighbors_)
    /\ sod' = [pc |-> "snn", i |-> 0]
    /\ UNCHANGED << X, self, ref_inds, anomaly_scores, loc >>
    /\ UNCHANGED << ref_set_, temp, _count, iter, kernel, lifeVars, twinVars >>

\* line 173: the kernel's result becomes ref_inds; line 185
SodSnn ==
    /\ sod.pc = "snn"
    /\ ref_inds' = _snn_imp(ind, self.ref_set_)
    /\ anomaly_scores' = InitialScores
    /\ sod' = [pc |-> "loop", i |-> 0]
    /\ UNCHANGED << X, self, loc >>
    /\ UNCHANGED << kernelVars, lifeVars, twinVars >>

\* lines 186-198, one iteration
SodIteration ==
    /\ sod.pc = "loop"
    /\ LET b == LoopBody(X, ref_inds, self.alpha_, self.ref_set_, sod.i,
                         anomaly_scores[sod.i]) IN
         /\ loc' = b
         /\ anomaly_scores' = [anomaly_scores EXCEPT ![sod.i] = b.score]
    /\ sod' = IF sod.i + 1 = NSamples THEN [pc |-> "returned", i |-> NSamples]
              ELSE [pc |-> "loop", i |-> sod.i + 1]
    /\ UNCHANGED << X, self, ref_inds >>
    /\ UNCHANGED << kernelVars, lifeVars, twinVars >>

NextSod == SodKnn \/ SodSnn \/ SodIteration

SpecSod == InitSod /\ [][NextSod]_vars


(***************************************************************************)
(* The detector: construction, fit, decision_function                      *)
(***************************************************************************)
\* arguments tried at construction
ContaminationArgs == { FloatArg(<< 1, 10 >>), FloatArg(<< 3, 5 >>) }
NeighborArgs == {IntArg(v) : v \in (1 .. NSamples) \cup {20}} \cup {FloatArg(<< 5, 2 >>)}
RefSetArgs == {IntArg(v) : v \in (1 .. NSamples) \cup {25}} \cup {FloatArg(<< 5, 2 >>)}
AlphaArgs == {FloatArg(q) : q \in Alphas \cup {RZero, RInt(1)}} \cup {IntArg(1)}

\* data sets passed to fit and decision_function
CallData == {x \in [Points -> Rows2D] :
                /\ x[0] = << 0, 0 >>
                /\ x[1] = << 2, 3 >>
                /\ x[2] = << 2, 0 >>
                /\ \A i \in Points : (2 < i /\ i < NSamples - 2) => x[i] = << 0, 0 >>}

Init ==
    /\ KernelOff
    /\ SodOff
    /\ self = NoAttrs
    /\ status = "new"
    /\ args = << >>
    /\ NoCalls
    /\ NoTwin

\* SOD(contamination, n_neighbors, ref_set, alpha): lines 90-113.  A failed
\* check raises ValueError and leaves the object as far as it was set.
Construct ==
    /\ status = "new"
    /\ \E c \in ContaminationArgs, k \in NeighborArgs,
          r \in RefSetArgs, a \in AlphaArgs :
          /\ args' = [contamination |-> c, n_neighbors |-> k,
                      ref_set |-> r, alpha |-> a]
          /\ IF ~ BaseContaminationOk(c)
             THEN status' = "error" /\ self' = NoAttrs
             ELSE IF ~ (NeighborsOk(k) /\ RefSetOk(r, k) /\ AlphaOk(a))
             THEN status' = "error" /\ self' = AfterBaseInit(c)
             ELSE status' = "constructed" /\ self' = Detector(k, r, a, c)
    /\ UNCHANGED << fitted, called >>
    /\ UNCHANGED << kernelVars, X, ref_inds, anomaly_scores, loc, sod, twinVars >>

\* kneighbors needs more samples than neighbours, else it raises ValueError
CanScore(me) == me.n_neighbors_ < NSamples

\* BaseDetector._process_decision_scores: the threshold is the least score
\* that at most contamination * n scores exceed; a label is 1 from the
\* threshold up
_process_decision_scores(me) ==
    LET sc == me.decision_scores_
        above(v) == Cardinality({i \in Points : RLess(v, sc[i])})
        ok(v) == ~ RLess(RMul(me.contamination, RInt(NSamples)), RInt(above(v)))
        threshold == CHOOSE v \in {sc[i] : i \in Points} :
                        /\ ok(v)
                        /\ \A i \in Points : ok(sc[i]) => ~ RLess(sc[i], v)
    IN  SetAttr(SetAttr(me, "threshold_", threshold),
                "labels_", [i \in Points |-> IF RLess(sc[i], threshold) THEN 0 ELSE 1])

\* what decision_function leaves of the detector it is called on
StoresItsScores(me, scores) == SetAttr(me, "decision_scores_", scores)
AfterDecisionFunction(me, scores) == me

\* fit(X): lines 133-138
Fit ==
    /\ status = "constructed"
    /\ \E x \in CallData :
          LET me == SetAttr(self, "_classes", 2) IN
          IF CanScore(self)
          THEN LET scores == _sod(x, self) IN
               /\ self' = _process_decision_scores(
                              SetAttr(AfterDecisionFunction(me, scores),
                                      "decision_scores_", scores))
               /\ fitted' = [done |-> TRUE, X |-> x]
          ELSE /\ self' = me
               /\ UNCHANGED fitted
    /\ UNCHANGED << status, args, called >>
    /\ UNCHANGED << kernelVars, X, ref_inds, anomaly_scores, loc, sod, twinVars >>

\* decision_function(X): lines 140-157
DecisionFunction ==
    /\ status = "constructed"
    /\ CanScore(self)
    /\ \E x \in CallData :
          LET scores == _sod(x, self) IN
          /\ self' = AfterDecisionFunction(self, scores)
          /\ called' = [done |-> TRUE, X |-> x, ret |-> scores]
    /\ UNCHANGED << status, args, fitted >>
    /\ UNCHANGED << kernelVars, X, ref_inds, anomaly_scores, loc, sod, twinVars >>

Next == Construct \/ Fit \/ DecisionFunction

Spec == Init /\ [][Next]_vars

(***************************************************************************)
(* _sod on renumbered samples                                              *)
(*                                                                         *)
(* The samples are renumbered by an exchange of two neighbouring indices;  *)
(* these exchanges generate every permutation.  The feature matrix and the *)
(* neighbour index matrix are renumbered together: row perm[i] of the new  *)
(* neighbour matrix holds the new numbers of the neighbours of i.          *)
(***************************************************************************)
Exchange(a) == [i \in Points |-> IF i = a THEN a + 1 ELSE IF i = a + 1 THEN a ELSE i]
Exchanges == {Exchange(a) : a \in 0 .. (NSamples - 2)}

Renumbered(p, rows) == Arr([q \in Points |-> rows[CHOOSE i \in Points : p[i] = q]])
Image(p, S) == {p[j] : j \in S}

InitTwin ==
    /\ SodStart([Points -> Rows2D], {<< 4, 5 >>})
    /\ perm \in Exchanges
    /\ twin = [done |-> FALSE]

\* lines 173 and 184-200 on the renumbered matrices
SodTwin ==
    /\ sod.pc = "returned"
    /\ ~ twin.done
    /\ LET x == Renumbered(perm, X)
           nb == Renumbered(perm, [i \in Points |-> Image(perm, ind[i])])
           refs == _snn_imp(nb, self.ref_set_)
       IN  twin' = [done |-> TRUE, X |-> x, ind |-> nb, ref_inds |-> refs,
                    anomaly_scores |-> SodFrom(x, refs, self, 0, InitialScores)]
    /\ UNCHANGED << perm, kernelVars, sodVars, lifeVars >>

NextTwin == SodKnn \/ SodSnn \/ SodIteration \/ SodTwin

SpecTwin == InitTwin /\ [][NextTwin]_vars

(***************************************************************************)
(* Properties of the reference sets                                        *)
(***************************************************************************)
\* shared-neighbour count of i and j
Similarity(i, j) == Cardinality(ind[i] \cap ind[j])

RowOf(refs, i) == {refs[i][m] : m \in 1 .. Len(refs[i])}

HaveRefInds == sod.pc \in {"loop", "returned"}

\* C1: every row i of the matrix _snn_imp returns holds exactly ref_set
\* pairwise distinct indices of 0..n-1, none of them i.
RefRowsDistinctNoSelf ==
    HaveRefInds =>
        \A i \in Points :
            /\ Len(ref_inds[i]) = self.ref_set_
            /\ RowOf(ref_inds, i) \subseteq Points \ {i}
            /\ Cardinality(RowOf(ref_inds, i)) = self.ref_set_

\* a row was computed where the neighbour pool is larger than the reference
\* set and some candidate was left out
RefRowsWitness ==
    /\ HaveRefInds
    /\ self.ref_set_ = 2 /\ self.n_neighbors_ = 3
    /\ \E i \in Points : Similarity(i, ref_inds[i][1]) > Similarity(i, ref_inds[i][2])

\* C2: along every row the shared-neighbour counts do not increase, and no
\* index left out of the row (other than i) has a larger count than one in it.
RefRowsAreTopRanked ==
    HaveRefInds =>
        \A i \in Points :
            /\ \A a, b \in 1 .. Len(ref_inds[i]) :
                  a < b => Similarity(i, ref_inds[i][a]) >= Similarity(i, ref_inds[i][b])
            /\ \A j \in Points \ ({i} \cup RowOf(ref_inds, i)) :
                  \A s \in RowOf(ref_inds, i) : Similarity(i, j) <= Similarity(i, s)

\* a row with strictly falling counts, and a row with a strictly less
\* similar candidate left out
TopRankedWitness ==
    /\ HaveRefInds
    /\ \E i \in Points :
          Similarity(i, ref_inds[i][1]) > Similarity(i, ref_inds[i][2])
    /\ \E i \in Points :
          \E j \in Points \ ({i} \cup RowOf(ref_inds, i)) :
              Similarity(i, j) < Similarity(i, ref_inds[i][Len(ref_inds[i])])

ParallelEqualsSequential ==
    kernel \in {"run", "returned"} =>
        \A i \in Points :
            _count[i] = IF iter[i].pc = "done"
                        THEN ReversedSlice(argsort(TempOf(ind, i)), ref_set_)
                        ELSE [m \in 1 .. ref_set_ |-> 0]

\* two iterations overlap: one is about to sort while the other is in the
\* middle of its inner loop, after a third has finished
OverlapWitness ==
    /\ kernel = "run"
    /\ \E a, b, c \in Points :
          /\ iter[a].pc = "sort"
          /\ iter[b].pc = "inner" /\ iter[b].j > 0
          /\ iter[c].pc = "done"


(***************************************************************************)
(* Properties of the scoring loop                                          *)
(***************************************************************************)
BodyRan == sod.pc \in {"loop", "returned"} /\ sod.i > 0

Dim == Len(X[0])

\* every sample of the reference set of the last iteration is the same point
RefIdentical == \A a, b \in 1 .. Len(loc.ref) : loc.ref[a] = loc.ref[b]

\* sum over all dimensions of (X[i,j] - means[j])^2, divided by d
FullDimRadicand ==
    RDiv(RSum([j \in 1 .. Dim |->
                  LET e == RSub(RInt(loc.obs[j]), loc.means[j]) IN RMul(e, e)]),
         RInt(Dim))

\* C4 as stated: a reference set of identical points makes every dimension
\* relevant (rel_dim = d) and the score the full-dimensional root-mean-square
\* deviation from the mean.
IdenticalRefAllRelevant ==
    (BodyRan /\ RefIdentical) =>
        /\ loc.rel_dim = Dim
        /\ anomaly_scores[loc.i] = FullDimRadicand

\* C4 (amended): a reference set of identical points has var_expect = 0 and
\* var_actual = 0 in every dimension, so no dimension is relevant
\* (rel_dim = 0) and the score stays 0.
IdenticalRefNoneRelevant ==
    (BodyRan /\ RefIdentical) =>
        /\ loc.var_expect = RZero
        /\ \A j \in 1 .. Dim : loc.var_actual[j] = RZero
        /\ loc.rel_dim = 0
        /\ anomaly_scores[loc.i] = RZero

\* the reference set is one repeated point and the scored sample lies
\* elsewhere, in two dimensions
IdenticalRefWitness ==
    /\ BodyRan
    /\ RefIdentical
    /\ Dim = 2
    /\ loc.obs # loc.ref[1]
    /\ FullDimRadicand # RZero

RelevantSubspaceProper ==
    /\ BodyRan => loc.rel_dim <= Dim - 1
    /\ (HaveRefInds /\ Dim = 1) => \A i \in Points : anomaly_scores[i] = RZero

\* one of two dimensions is relevant and the score is not 0
ProperSubspaceWitness ==
    /\ BodyRan
    /\ Dim = 2
    /\ loc.rel_dim = 1
    /\ anomaly_scores[loc.i] # RZero


(***************************************************************************)
(* Properties of the detector                                              *)
(***************************************************************************)
ConfigAttrs == {"n_neighbors_", "ref_set_", "alpha_"}

\* C3: constructing with an integer ref_set >= n_neighbors fails: the
\* constructor raises, no detector comes out of it, none of n_neighbors_,
\* ref_set_, alpha_ is set and no data is processed.
LargeRefSetRejected ==
    (/\ status # "new"
     /\ args.n_neighbors.type = "int"
     /\ args.ref_set.type = "int"
     /\ args.ref_set.val >= args.n_neighbors.val)
        => /\ status = "error"
           /\ DOMAIN self \cap ConfigAttrs = {}
           /\ ~ fitted.done
           /\ ~ called.done

\* ref_set = 25 with n_neighbors = 20 was tried, every other argument valid
LargeRefSetWitness ==
    /\ status = "error"
    /\ args.n_neighbors = IntArg(20)
    /\ args.ref_set = IntArg(25)
    /\ args.alpha = FloatArg(<< 4, 5 >>)
    /\ args.contamination = FloatArg(<< 1, 10 >>)

\* the detector as the constructor's arguments make it
AsConstructed ==
    Detector(args.n_neighbors, args.ref_set, args.alpha, args.contamination)

\* C9: after any sequence of fit and decision_function calls, n_neighbors_,
\* ref_set_ and alpha_ hold their construction-time values, decision_scores_
\* is the score vector of the X of the most recent fit (None before the first
\* fit), and what decision_function returned is the score vector of its own X
\* under the construction-time configuration.
DecisionFunctionKeepsState ==
    status = "constructed" =>
        /\ \A a \in ConfigAttrs : self[a] = AsConstructed[a]
        /\ self.decision_scores_ =
              IF fitted.done THEN _sod(fitted.X, AsConstructed) ELSE None
        /\ called.done => called.ret = _sod(called.X, AsConstructed)

\* a fitted detector scored another data set, with other scores
KeepsStateWitness ==
    /\ status = "constructed"
    /\ fitted.done
    /\ called.done
    /\ called.X # fitted.X
    /\ called.ret # self.decision_scores_
    /\ \E i \in Points : self.decision_scores_[i] # RZero


(***************************************************************************)
(* Properties of scoring under renumbering                                 *)
(***************************************************************************)
\* the counts of the last index taken into row i and of the best one left out differ
NoTieAtBoundary(i) ==
    \A j \in Points \ ({i} \cup RowOf(ref_inds, i)) :
        Similarity(i, j) < Similarity(i, ref_inds[i][Len(ref_inds[i])])

SameUnderRenumbering(i) ==
    /\ RowOf(twin.ref_inds, perm[i]) = Image(perm, RowOf(ref_inds, i))
    /\ twin.anomaly_scores[perm[i]] = anomaly_scores[i]

\* C6 as stated: for every sample i the reference set of perm[i] is the image
\* of the reference set of i and the scores agree, ties at the selection
\* boundary included.
RenumberingInvariant ==
    twin.done => \A i \in Points : SameUnderRenumbering(i)

\* C6 (amended): the same for every sample i whose row has no tie at the
\* selection boundary.
RenumberingInvariantWithoutTies ==
    twin.done => \A i \in Points : NoTieAtBoundary(i) => SameUnderRenumbering(i)

\* a sample without a tie at the boundary whose reference set is renumbered
\* and whose score is not 0
RenumberingWitness ==
    /\ twin.done
    /\ \E i \in Points :
          /\ NoTieAtBoundary(i)
          /\ Image(perm, RowOf(ref_inds, i)) # RowOf(ref_inds, i)
          /\ anomaly_scores[i] # RZero

====
